---- MODULE Spec2Model ----
(***************************************************************************)
(* The OECD SDMX-JSON decoder of middle_middle: the series-keyed expander  *)
(* of oecd_import.fetch_oecd_data, the flattened and the series-keyed      *)
(* expander of stats_oecd.fetch_and_reshape_oecd_json, and the two         *)
(* versions of append_metadata_to_oecd_stats, as one state machine.        *)
(*                                                                         *)
(* A pandas DataFrame is a record [cols, rows]: the set of column names    *)
(* and the sequence of rows, each row a function from the column names to  *)
(* cell values.  A cell value is a record [t, s, n]: a string ("str", its  *)
(* characters in s), an integer ("int", in n), JSON null ("none") or the   *)
(* NaN pandas fills in ("nan").  Keys, codes and periods are spelled       *)
(* character by character because the code splits, parses and formats      *)
(* them; labels are opaque one-fragment strings.                           *)
(***************************************************************************)
EXTENDS Integers, Sequences, FiniteSets, TLC

VARIABLES
    path,                       \* "import" (oecd_import.py) or "stats" (stats_oecd.py)
    pc,                         \* the position in the running function
    err,                        \* the exception that ended it, "" when none
    oecd_json,                  \* the parsed response
    todo,                       \* the keys the running loop has still to visit
    dimensions_and_attributes,  \* the flattened path's ordered dict of code tables
    output,                     \* the flattened path's table
    oecd_dataframe,             \* the series-keyed table (idd_dataframe in oecd_import)
    oecd_metadata,              \* the merger's ordered dict of code tables
    idd_dataframe,              \* the merger's table
    merge_input,                \* the table the running merger call was given
    calls                       \* the merger calls made so far

vars == <<path, pc, err, oecd_json, todo, dimensions_and_attributes, output,
          oecd_dataframe, oecd_metadata, idd_dataframe, merge_input, calls>>

-----------------------------------------------------------------------------
(* Python values *)

StrVal(chars) == [t |-> "str", s |-> chars, n |-> 0]

IntVal(k) == [t |-> "int", s |-> <<>>, n |-> k]

None == [t |-> "none", s |-> <<>>, n |-> 0]

NaN == [t |-> "nan", s |-> <<>>, n |-> 0]

isnull(v) == v.t \in {"none", "nan"}

DigitChars == <<"0", "1", "2", "3", "4", "5", "6", "7", "8", "9">>

RECURSIVE FormatNat(_)
FormatNat(k) ==
    IF k < 10 THEN <<DigitChars[k + 1]>>
    ELSE FormatNat(k \div 10) \o <<DigitChars[(k % 10) + 1]>>

(* str(x) of lines 70, 78 (oecd_import) and 254, 315, 323 (stats_oecd) *)
PyStr(v) ==
    CASE v.t = "str" -> v
      [] v.t = "int" -> StrVal(FormatNat(v.n))
      [] v.t = "none" -> StrVal(<<"N", "o", "n", "e">>)
      [] OTHER -> StrVal(<<"n", "a", "n">>)

DigitValue(c) == CHOOSE d \in 0..9 : DigitChars[d + 1] = c

IsDecimal(chars) ==
    /\ Len(chars) > 0
    /\ \A i \in 1..Len(chars) : \E d \in 0..9 : DigitChars[d + 1] = chars[i]

RECURSIVE ParseNat(_)
ParseNat(chars) ==
    IF Len(chars) = 0 THEN 0
    ELSE 10 * ParseNat(SubSeq(chars, 1, Len(chars) - 1))
         + DigitValue(chars[Len(chars)])

(* key.split(":") *)
RECURSIVE Split(_)
Split(chars) ==
    IF \A i \in 1..Len(chars) : chars[i] # ":" THEN <<chars>>
    ELSE LET i == CHOOSE j \in 1..Len(chars) :
                      /\ chars[j] = ":"
                      /\ \A k \in 1..(j - 1) : chars[k] # ":"
         IN  <<SubSeq(chars, 1, i - 1)>> \o Split(SubSeq(chars, i + 1, Len(chars)))

(* ":".join(tokens) *)
RECURSIVE Join(_)
Join(tokens) ==
    IF Len(tokens) = 0 THEN <<>>
    ELSE IF Len(tokens) = 1 THEN tokens[1]
    ELSE tokens[1] \o <<":">> \o Join(Tail(tokens))

(* id.lower() on the ids the structures below use *)
Lower(id) ==
    CASE id = "LOCATION" -> "location"
      [] id = "MEASURE" -> "measure"
      [] id = "Measure" -> "measure"
      [] id = "UNIT" -> "unit"
      [] id = "METHODO" -> "methodo"
      [] id = "STATUS" -> "status"
      [] id = "CONF" -> "conf"
      [] id = "DECIMALS" -> "decimals"
      [] id = "SUBJECT" -> "subject"
      [] id = "FLAG" -> "flag"
      [] id = "TIME_PERIOD" -> "time_period"
      [] OTHER -> id

Min(a, b) == IF a <= b THEN a ELSE b

(* dict(zip(names, values)): pairs up to the shorter list, a later pair *)
(* with the same name replacing an earlier one                          *)
DictZip(names, values) ==
    LET m == Min(Len(names), Len(values))
    IN  [c \in {names[i] : i \in 1..m} |->
            values[CHOOSE i \in 1..m :
                      /\ names[i] = c
                      /\ \A j \in (i + 1)..m : names[j] # c]]

-----------------------------------------------------------------------------
(* pandas *)

EmptyFrame == [cols |-> {}, rows |-> <<>>]

(* pd.DataFrame(d) of a dict of one-element lists and scalars *)
OneRowFrame(d) ==
    [cols |-> DOMAIN d, rows |-> IF DOMAIN d = {} THEN <<>> ELSE <<d>>]

Widen(row, have, cols) == [c \in cols |-> IF c \in have THEN row[c] ELSE NaN]

RECURSIVE ConcatRows(_, _)
ConcatRows(frames, cols) ==
    IF Len(frames) = 0 THEN <<>>
    ELSE [i \in 1..Len(frames[1].rows) |->
              Widen(frames[1].rows[i], frames[1].cols, cols)]
         \o ConcatRows(Tail(frames), cols)

(* pd.concat(frames), DataFrame.append: the rows of all frames over the *)
(* union of their columns, NaN where a frame lacks a column             *)
Concat(frames) ==
    LET cols == UNION {frames[i].cols : i \in 1..Len(frames)}
    IN  [cols |-> cols, rows |-> ConcatRows(frames, cols)]

(* df[c] = scalar *)
SetColumn(df, c, v) ==
    [cols |-> df.cols \cup {c},
     rows |-> [i \in 1..Len(df.rows) |->
                  [k \in df.cols \cup {c} |-> IF k = c THEN v ELSE df.rows[i][k]]]]

MergeCols(left, right, key) ==
    LET overlap == (left.cols \cap right.cols) \ {key}
    IN  {IF c \in overlap THEN c \o "_x" ELSE c : c \in left.cols}
        \cup {IF c \in overlap THEN c \o "_y" ELSE c : c \in right.cols \ {key}}

(* one row of a merge; hasL / hasR tell whether the left / right side has *)
(* a row (l / r is then that row), the other side's cells being NaN        *)
MergeRow(left, right, key, hasL, l, hasR, r) ==
    LET overlap == (left.cols \cap right.cols) \ {key}
        LName(c) == IF c \in overlap THEN c \o "_x" ELSE c
        RName(c) == IF c \in overlap THEN c \o "_y" ELSE c
    IN  [c \in MergeCols(left, right, key) |->
            IF \E a \in left.cols : LName(a) = c
            THEN LET a == CHOOSE a \in left.cols : LName(a) = c
                 IN  IF hasL THEN l[a]
                     ELSE IF a = key THEN r[key] ELSE NaN
            ELSE LET b == CHOOSE b \in right.cols \ {key} : RName(b) = c
                 IN  IF hasR THEN r[b] ELSE NaN]

RECURSIVE MatchingRows(_, _, _)
MatchingRows(rows, key, v) ==
    IF Len(rows) = 0 THEN <<>>
    ELSE (IF rows[1][key] = v THEN <<rows[1]>> ELSE <<>>)
         \o MatchingRows(Tail(rows), key, v)

RECURSIVE LeftRows(_, _, _, _)
LeftRows(left, right, key, i) ==
    IF i > Len(left.rows) THEN <<>>
    ELSE LET l == left.rows[i]
             ms == MatchingRows(right.rows, key, l[key])
         IN  (IF Len(ms) = 0
              THEN <<MergeRow(left, right, key, TRUE, l, FALSE, l)>>
              ELSE [j \in 1..Len(ms) |->
                       MergeRow(left, right, key, TRUE, l, TRUE, ms[j])])
             \o LeftRows(left, right, key, i + 1)

RECURSIVE RightOnlyRows(_, _, _, _)
RightOnlyRows(left, right, key, i) ==
    IF i > Len(right.rows) THEN <<>>
    ELSE LET r == right.rows[i]
         IN  (IF \E j \in 1..Len(left.rows) : left.rows[j][key] = r[key]
              THEN <<>>
              ELSE <<MergeRow(left, right, key, FALSE, r, TRUE, r)>>)
             \o RightOnlyRows(left, right, key, i + 1)

(* pd.merge(left, right, on=key, how=how) for how in "left", "outer";  *)
(* the caller has checked that key is a column of both                  *)
Merge(left, right, key, how) ==
    [cols |-> MergeCols(left, right, key),
     rows |-> LeftRows(left, right, key, 1)
              \o (IF how = "outer" THEN RightOnlyRows(left, right, key, 1)
                  ELSE <<>>)]

-----------------------------------------------------------------------------
(* The responses the model draws from.  A dimension or attribute of the     *)
(* structure block is [id, role, values], role "" when the key is absent;   *)
(* a response is [structure, dataSets, missing], missing naming the keys    *)
(* a KeyError will report.                                                  *)

MaxPeriods == 2

MaxSeries == 2

MaxCalls == 2

V(code, name) == [id |-> StrVal(<<code>>), name |-> StrVal(<<name>>)]

Dim(id, role, values) == [id |-> id, role |-> role, values |-> values]

LocationValues == <<V("AUS", "Australia"), V("AUT", "Austria")>>

MeasureValues == <<V("GDP", "Gross domestic product"), V("POP", "Population")>>

UnitValues == <<V("USD", "US dollar"), V("IDX", "Index")>>

SubjectValues == <<V("TOT", "Total")>>

MethodoValues == <<V("M2011", "Income definition 2011"),
                   V("M2012", "Income definition 2012")>>

FlagValues == <<V("E", "Estimated")>>

StatusValues == <<V("A", "Normal")>>

ConfValues == <<V("F", "Free")>>

DecimalsValues == <<V("1", "One")>>

TimeValues == <<V("2010", "2010"), V("2011", "2011")>>

TimeDims == <<Dim("TIME_PERIOD", "TIME_PERIOD", TimeValues)>>

ObsAttributeSpecs == <<Dim("STATUS", "", StatusValues), Dim("CONF", "", ConfValues),
              Dim("DECIMALS", "", DecimalsValues)>>

DimsSeriesChoices ==
    {<<Dim("LOCATION", "", lv), Dim("MEASURE", "", mv), Dim("UNIT", "", UnitValues)>> :
        lv \in {<<>>, LocationValues}, mv \in {<<>>, MeasureValues}}
    \cup {<<Dim("LOCATION", "", lv), Dim("MEASURE", "", MeasureValues)>> :
        lv \in {<<>>, LocationValues}}
    \cup {<<Dim("LOCATION", "", LocationValues), Dim("MEASURE", "", MeasureValues),
            Dim("UNIT", "", UnitValues), Dim("SUBJECT", "", SubjectValues)>>,
          <<Dim("LOCATION", "", LocationValues), Dim("MEASURE", "", MeasureValues),
            Dim("Measure", "", UnitValues)>>,
          <<Dim("MEASURE", "", MeasureValues), Dim("UNIT", "", UnitValues),
            Dim("SUBJECT", "", SubjectValues)>>}

AttrsSeriesChoices ==
    {<<>>,
     <<Dim("METHODO", "", MethodoValues)>>,
     <<Dim("METHODO", "", <<>>)>>,
     <<Dim("METHODO", "", MethodoValues), Dim("FLAG", "", FlagValues)>>,
     <<Dim("METHODO", "", MethodoValues), Dim("FLAG", "", <<>>)>>,
     <<Dim("MEASURE", "", <<>>)>>,
     <<Dim("MEASURE", "", MethodoValues)>>}

Structure(ds, da, os, oa) ==
    [dimensions |-> [series |-> ds, observation |-> os],
     attributes |-> [series |-> da, observation |-> oa]]

(* the status codes that follow the value in an observation array *)
Statuses(n) == [j \in 1..n |-> IF j = 1 THEN IntVal(0) ELSE None]

(* T periods "0", "1", ...; the value of period i is i - 1, null at nullAt *)
Observations(T, nullAt, nStatus) ==
    [i \in 1..T |->
        [period |-> FormatNat(i - 1),
         obs |-> <<IF i = nullAt THEN None ELSE IntVal(i - 1)>> \o Statuses(nStatus)]]

Series(missing, attributes, observations) ==
    [missing |-> missing, attributes |-> attributes, observations |-> observations]

AttributeArrays ==
    {<<>>, <<IntVal(0)>>, <<IntVal(0), None>>, <<None, IntVal(1)>>}

DefaultSeries == Series({}, <<IntVal(0), None>>, Observations(1, 0, 3))

(* a series whose arrays have the declared lengths, or no attributes *)
SeriesChoices ==
    {Series({}, a, Observations(T, k, 3)) :
        a \in AttributeArrays, T \in 0..MaxPeriods, k \in {0, 1, MaxPeriods}}
    \cup {Series({"attributes"}, <<>>, Observations(1, 0, 3))}

(* a series whose observation arrays are shorter or longer than declared *)
RaggedSeriesChoices ==
    {Series({}, <<IntVal(0), None>>, Observations(T, k, n)) :
        T \in 1..MaxPeriods, k \in 0..1, n \in {0, 1, 2, 4}}

(* the keys lines 133 and 236 of stats_oecd.py name *)
FlatTestKeys ==
    << <<"0", ":", "1", "0", ":", "6", ":", "9">>,
       <<"0", ":", "1", "1", ":", "1", "0", ":", "1", "0">>,
       <<"0", ":", "1", ":", "9", ":", "4", "0">> >>

SeriesTestKeys ==
    << <<"0", ":", "0", ":", "1">>,
       <<"0", ":", "1", "7", ":", "6">>,
       <<"0", ":", "1", ":", "1", "0">> >>

OtherSeriesKey == <<"1", ":", "0", ":", "0">>

OtherFlatKey == <<"1", ":", "0", ":", "0", ":", "0">>

Range(f) == {f[i] : i \in DOMAIN f}

FlatObservations(value) == [k \in Range(FlatTestKeys) |-> value]

SeriesOf(first, rest) ==
    [k \in Range(SeriesTestKeys) |-> IF k = SeriesTestKeys[1] THEN first ELSE rest]

Response(structure, observations, series, missing) ==
    [structure |-> structure,
     dataSets |-> [observations |-> observations, series |-> series],
     missing |-> missing]

DefaultStructure ==
    Structure(<<Dim("LOCATION", "", LocationValues), Dim("MEASURE", "", MeasureValues),
                Dim("UNIT", "", UnitValues)>>,
              <<Dim("METHODO", "", MethodoValues), Dim("FLAG", "", FlagValues)>>,
              TimeDims, ObsAttributeSpecs)

(* the layout of a flattened response: every dimension at observation level *)
FlatStructure ==
    Structure(<<>>, <<>>,
              <<Dim("LOCATION", "", LocationValues), Dim("MEASURE", "", MeasureValues),
                Dim("UNIT", "", UnitValues),
                Dim("TIME_PERIOD", "TIME_PERIOD", TimeValues)>>,
              <<Dim("STATUS", "", StatusValues)>>)

StatsResponses ==
    {Response(Structure(ds, da, TimeDims, ObsAttributeSpecs),
              FlatObservations(<<IntVal(5)>>), SeriesOf(s, DefaultSeries), {}) :
        ds \in DimsSeriesChoices, da \in AttrsSeriesChoices,
        s \in {DefaultSeries, Series({}, <<None, IntVal(1)>>, Observations(2, 2, 3))}}
    \cup {Response(Structure(DefaultStructure.dimensions.series, da, TimeDims,
                             ObsAttributeSpecs),
                   FlatObservations(<<IntVal(5)>>), SeriesOf(s, DefaultSeries), {}) :
        da \in AttrsSeriesChoices, s \in SeriesChoices}
    \cup {Response(Structure(DefaultStructure.dimensions.series, da, TimeDims, ObsAttributeSpecs),
                   FlatObservations(<<IntVal(5)>>), SeriesOf(s, DefaultSeries), {}) :
        da \in AttrsSeriesChoices, s \in RaggedSeriesChoices}
    \cup {Response(DefaultStructure, FlatObservations(<<IntVal(5)>>), SeriesOf(s, s), {}) :
        s \in {Series({}, <<IntVal(0)>>, Observations(1, 0, 3)),
                Series({}, <<IntVal(0), None>>, Observations(1, 0, 1))}}
    \cup {Response(st, FlatObservations(v), SeriesOf(DefaultSeries, DefaultSeries), {}) :
        st \in {FlatStructure,
                Structure(DefaultStructure.dimensions.series,
                          DefaultStructure.attributes.series,
                          FlatStructure.dimensions.observation,
                          FlatStructure.attributes.observation)},
        v \in {<<IntVal(5), IntVal(0)>>, <<None, None>>}}
    \cup {Response(DefaultStructure, FlatObservations(<<IntVal(5)>>),
                   [k \in Range(SeriesTestKeys) \cup {OtherSeriesKey} |-> DefaultSeries], {}),
          Response(DefaultStructure, FlatObservations(<<IntVal(5)>>),
                   [k \in {SeriesTestKeys[1], SeriesTestKeys[2]} |-> DefaultSeries], {}),
          Response(FlatStructure,
                   [k \in Range(FlatTestKeys) \cup {OtherFlatKey} |->
                       <<IntVal(5), IntVal(0)>>],
                   SeriesOf(DefaultSeries, DefaultSeries), {}),
          Response(FlatStructure,
                   [k \in {FlatTestKeys[1], FlatTestKeys[2]} |-> <<IntVal(5), IntVal(0)>>],
                   SeriesOf(DefaultSeries, DefaultSeries), {}),
          Response(DefaultStructure, FlatObservations(<<IntVal(5)>>),
                   SeriesOf(DefaultSeries, DefaultSeries), {"dataSets.series"}),
          Response(Structure(<<>>, DefaultStructure.attributes.series, TimeDims,
                             ObsAttributeSpecs),
                   FlatObservations(<<IntVal(5)>>),
                   SeriesOf(DefaultSeries, DefaultSeries), {"dimensions.series"}),
          Response(Structure(DefaultStructure.dimensions.series,
                             DefaultStructure.attributes.series, <<>>, ObsAttributeSpecs),
                   FlatObservations(<<IntVal(5)>>),
                   SeriesOf(DefaultSeries, DefaultSeries), {"dimensions.observation"}),
          Response(DefaultStructure, FlatObservations(<<IntVal(5)>>),
                   SeriesOf(DefaultSeries, DefaultSeries), {"dataSets.observations"}),
          Response(DefaultStructure, FlatObservations(<<IntVal(5), None>>),
                   SeriesOf(DefaultSeries, DefaultSeries), {}),
          Response(Structure(DefaultStructure.dimensions.series,
                             DefaultStructure.attributes.series, TimeDims,
                             <<Dim("STATUS", "", <<>>), Dim("CONF", "", ConfValues),
                               Dim("DECIMALS", "", DecimalsValues)>>),
                   FlatObservations(<<IntVal(5)>>),
                   SeriesOf(DefaultSeries, DefaultSeries), {})}

-----------------------------------------------------------------------------
(* stats_oecd.fetch_and_reshape_oecd_json: the flattened section *)

Names(specs) == [i \in 1..Len(specs) |-> Lower(specs[i].id)]

(* d[key] = value on an ordered dict: a key already there keeps its place *)
DictSet(d, e) ==
    IF \E i \in 1..Len(d) : d[i].key = e.key
    THEN [i \in 1..Len(d) |-> IF d[i].key = e.key THEN e ELSE d[i]]
    ELSE Append(d, e)

RECURSIVE ValueTables(_, _)
ValueTables(specs, d) ==
    IF Len(specs) = 0 THEN d
    ELSE ValueTables(Tail(specs),
                     DictSet(d, [key |-> Lower(specs[1].id), values |-> specs[1].values]))

column_names(structure) ==
    Names(structure.dimensions.observation) \o <<"observation">>
    \o Names(structure.attributes.observation)

(* line 155-156: the tokens as integers, then the array with NaN for None *)
FlatRow(dimensions, observation) ==
    LET tokens == Split(dimensions)
    IN  [i \in 1..Len(tokens) |-> IntVal(ParseNat(tokens[i]))]
        \o [i \in 1..Len(observation) |->
               IF observation[i] = None THEN NaN ELSE observation[i]]

MaxLen(rows) ==
    CHOOSE m \in {Len(rows[i]) : i \in 1..Len(rows)} :
        \A i \in 1..Len(rows) : Len(rows[i]) <= m

(* pd.DataFrame(rows, columns=names): short rows are padded *)
FrameOfRows(rows, names) ==
    [cols |-> Range(names),
     rows |-> [r \in 1..Len(rows) |->
                  [c \in Range(names) |->
                      LET i == CHOOSE i \in 1..Len(names) : names[i] = c
                      IN  IF i <= Len(rows[r]) THEN rows[r][i] ELSE NaN]]]

(* a code table whose columns are not named after the id *)
CodeFrameUnprefixed(id, values, position) ==
    IF Len(values) = 0 THEN [cols |-> {id}, rows |-> <<>>]
    ELSE [cols |-> {"code", "name", id},
          rows |-> [i \in 1..Len(values) |->
                       [c \in {"code", "name", id} |->
                           IF c = "code" THEN values[i].id
                           ELSE IF c = "name" THEN values[i].name
                           ELSE position[i]]]]

(* a code table as the right side of a merge on column id: the renamed *)
(* columns of pd.DataFrame(values) and the positions as the key         *)
CodeFrame(id, values, position) ==
    IF Len(values) = 0 THEN [cols |-> {id}, rows |-> <<>>]
    ELSE [cols |-> {id \o "_code", id \o "_name", id},
          rows |-> [i \in 1..Len(values) |->
                       [c \in {id \o "_code", id \o "_name", id} |->
                           IF c = id \o "_code" THEN values[i].id
                           ELSE IF c = id \o "_name" THEN values[i].name
                           ELSE position[i]]]]

IntPosition(i) == IntVal(i - 1)

(* positions counted from one *)
StrPositionFromOne(i) == PyStr(IntVal(i))

StrPosition(i) == PyStr(IntVal(i - 1))

Fail(kind) == pc' = "failed" /\ err' = kind

(* lines 82-116 *)
StatsFetch ==
    /\ pc = "start"
    /\ \E response \in StatsResponses : oecd_json' = response
    /\ path' = "stats"
    /\ pc' = "flat_select"
    /\ UNCHANGED <<err, todo, dimensions_and_attributes, output, oecd_dataframe,
                   oecd_metadata, idd_dataframe, merge_input, calls>>

(* lines 132-134 *)
FlatSelect ==
    /\ pc = "flat_select"
    /\ IF \/ "dataSets.observations" \in oecd_json.missing
          \/ \E i \in 1..Len(FlatTestKeys) :
                FlatTestKeys[i] \notin DOMAIN oecd_json.dataSets.observations
       THEN Fail("KeyError") /\ UNCHANGED todo
       ELSE pc' = "flat_decode" /\ todo' = FlatTestKeys /\ UNCHANGED err
    /\ UNCHANGED <<path, oecd_json, dimensions_and_attributes, output, oecd_dataframe,
                   oecd_metadata, idd_dataframe, merge_input, calls>>

(* lines 136-158 *)
FlatDecode ==
    /\ pc = "flat_decode"
    /\ LET rows == [i \in 1..Len(todo) |->
                       FlatRow(todo[i], oecd_json.dataSets.observations[todo[i]])]
           names == column_names(oecd_json.structure)
       IN  IF \/ "dimensions.observation" \in oecd_json.missing
              \/ "attributes.observation" \in oecd_json.missing
           THEN Fail("KeyError")
                /\ UNCHANGED <<dimensions_and_attributes, output>>
           ELSE IF \/ \E i \in 1..Len(todo) :
                         \E j \in 1..Len(Split(todo[i])) : ~IsDecimal(Split(todo[i])[j])
                   \/ MaxLen(rows) # Len(names)
           THEN Fail("ValueError")
                /\ UNCHANGED <<dimensions_and_attributes, output>>
           ELSE /\ pc' = "flat_merge"
                /\ output' = FrameOfRows(rows, names)
                /\ dimensions_and_attributes' =
                       ValueTables(oecd_json.structure.attributes.observation,
                           ValueTables(oecd_json.structure.dimensions.observation, <<>>))
                /\ UNCHANGED err
    /\ todo' = <<>>
    /\ UNCHANGED <<path, oecd_json, oecd_dataframe, oecd_metadata, idd_dataframe,
                   merge_input, calls>>

(* lines 162-169, one code table at a time *)
FlatMerge ==
    /\ pc = "flat_merge"
    /\ Len(dimensions_and_attributes) > 0
    /\ LET column_name == dimensions_and_attributes[1].key
           value_map == dimensions_and_attributes[1].values
       IN  IF Len(value_map) = 0
           THEN Fail("ValueError") /\ UNCHANGED <<dimensions_and_attributes, output>>
           ELSE /\ output' = Merge(output, CodeFrame(column_name, value_map,
                                             [i \in 1..Len(value_map) |-> IntPosition(i)]),
                                   column_name, "left")
                /\ dimensions_and_attributes' = Tail(dimensions_and_attributes)
                /\ UNCHANGED <<pc, err>>
    /\ UNCHANGED <<path, oecd_json, todo, oecd_dataframe, oecd_metadata, idd_dataframe,
                   merge_input, calls>>

-----------------------------------------------------------------------------
(* stats_oecd.fetch_and_reshape_oecd_json: the series-keyed section *)

series_data_column_names(structure) ==
    Names(structure.dimensions.series) \o Names(structure.attributes.series)

observation_data_column_names(structure) ==
    <<"observation">> \o Names(structure.attributes.observation)
    \o Names(structure.dimensions.observation)

(* lines 176-241 *)
SeriesSelect ==
    /\ pc = "flat_merge"
    /\ Len(dimensions_and_attributes) = 0
    /\ IF \/ "dimensions.series" \in oecd_json.missing
          \/ "attributes.series" \in oecd_json.missing
          \/ "dataSets.series" \in oecd_json.missing
          \/ \E i \in 1..Len(SeriesTestKeys) :
                SeriesTestKeys[i] \notin DOMAIN oecd_json.dataSets.series
       THEN Fail("KeyError") /\ UNCHANGED <<todo, oecd_dataframe>>
       ELSE /\ pc' = "expand"
            /\ todo' = SeriesTestKeys
            /\ oecd_dataframe' = EmptyFrame
            /\ UNCHANGED err
    /\ UNCHANGED <<path, oecd_json, dimensions_and_attributes, output, oecd_metadata,
                   idd_dataframe, merge_input, calls>>

(* lines 252-256 *)
SeriesData(structure, dimension_encoding, series) ==
    LET tokens == Split(dimension_encoding)
        series_data == [i \in 1..Len(tokens) |-> StrVal(tokens[i])]
                       \o [i \in 1..Len(series.attributes) |-> PyStr(series.attributes[i])]
    IN  OneRowFrame(DictZip(series_data_column_names(structure), series_data))

(* an expander that writes 0 where a value is null *)
ObservationDataZero(structure, time_period, observation) ==
    OneRowFrame(DictZip(observation_data_column_names(structure),
                        [i \in 1..Len(observation) |->
                            IF i = 1 /\ observation[i] = None THEN IntVal(0)
                            ELSE observation[i]]
                        \o <<StrVal(time_period)>>))

(* lines 263-270 *)
ObservationData(structure, time_period, observation) ==
    OneRowFrame(DictZip(observation_data_column_names(structure),
                        observation \o <<StrVal(time_period)>>))

(* lines 252-280: [err, data] *)
ExpandSeries(structure, dimension_encoding, series) ==
    LET data == SeriesData(structure, dimension_encoding, series)
        series_observations ==
            [i \in 1..Len(series.observations) |->
                ObservationData(structure, series.observations[i].period,
                                series.observations[i].obs)]
    IN  IF "attributes" \in series.missing \/ "observations" \in series.missing
        THEN [err |-> "KeyError", data |-> EmptyFrame]
        ELSE IF Len(series_observations) = 0
        THEN [err |-> "ValueError", data |-> EmptyFrame]
        ELSE IF "location" \notin data.cols
        THEN [err |-> "KeyError", data |-> EmptyFrame]
        ELSE [err |-> "",
              data |-> Merge(SetColumn(Concat(series_observations), "location",
                                       data.rows[1]["location"]),
                             data, "location", "outer")]

(* lines 243-282, one series at a time *)
SeriesExpand ==
    /\ pc = "expand"
    /\ LET r == ExpandSeries(oecd_json.structure, todo[1],
                             oecd_json.dataSets.series[todo[1]])
       IN  IF r.err # ""
           THEN Fail(r.err) /\ UNCHANGED <<todo, oecd_dataframe>>
           ELSE /\ oecd_dataframe' = Concat(<<oecd_dataframe, r.data>>)
                /\ todo' = Tail(todo)
                /\ pc' = IF Len(todo) = 1 THEN "assembled" ELSE "expand"
                /\ UNCHANGED err
    /\ UNCHANGED <<path, oecd_json, dimensions_and_attributes, output, oecd_metadata,
                   idd_dataframe, merge_input, calls>>

(* lines 287-288: oecd_json_structure_dimensions is not defined *)
StatsReturn ==
    /\ pc = "assembled"
    /\ path = "stats"
    /\ Fail("NameError")
    /\ UNCHANGED <<path, oecd_json, todo, dimensions_and_attributes, output,
                   oecd_dataframe, oecd_metadata, idd_dataframe, merge_input, calls>>

-----------------------------------------------------------------------------
(* stats_oecd.append_metadata_to_oecd_stats *)

RECURSIVE MetadataTables(_, _)
MetadataTables(specs, d) ==
    IF Len(specs) = 0 THEN d
    ELSE MetadataTables(Tail(specs),
             DictSet(d, [key |-> Lower(specs[1].id),
                         df |-> CodeFrame(Lower(specs[1].id), specs[1].values,
                                           [i \in 1..Len(specs[1].values) |-> StrPosition(i)])]))

(* dim_dataframe.columns = [...] on the frame of a list of values: a frame *)
(* without values has no columns to rename                                *)
RenameError(values) == IF Len(values) = 0 THEN "ValueError" ELSE ""

(* the loop without the handler of lines 310-313 *)
NoExcept(e) == e

(* lines 310-313: try ... except ValueError: pass *)
ExceptValueError(e) == IF e = "ValueError" THEN "" ELSE e

(* the exception the loop of lines 304-316 lets through, "" when none *)
StatsTableError(specs) ==
    IF \E i \in 1..Len(specs) : ExceptValueError(RenameError(specs[i].values)) # ""
    THEN "ValueError" ELSE ""

(* the time table: column year holds the ids of the values, column *)
(* time_metadata_index their positions as strings                   *)
TimeFrame(time_metadata_index, values) ==
    [cols |-> {"year", time_metadata_index},
     rows |-> [i \in 1..Len(values) |->
                  [c \in {"year", time_metadata_index} |->
                      IF c = "year" THEN values[i].id ELSE StrPosition(i)]]]

(* the exception lines 318-323 raise, "" when none *)
TimeError(dimensions, missing) ==
    IF "dimensions.observation" \in missing THEN "KeyError"
    ELSE IF Len(dimensions.observation) = 0 THEN "IndexError"
    ELSE IF dimensions.observation[1].role = "" THEN "KeyError"
    ELSE IF Len(dimensions.observation[1].values) = 0 THEN "ValueError"
    ELSE ""

(* the time dimension resolved like any other id *)
TimeEntryGeneric(dimensions) ==
    [key |-> Lower(dimensions.observation[1].role),
     df |-> CodeFrame(Lower(dimensions.observation[1].role),
                      dimensions.observation[1].values,
                      [i \in 1..Len(dimensions.observation[1].values) |-> StrPosition(i)])]

TimeEntry(dimensions) ==
    [key |-> Lower(dimensions.observation[1].role),
     df |-> TimeFrame(Lower(dimensions.observation[1].role),
                      dimensions.observation[1].values)]

(* lines 303-325, called as line 347 does: with the assembled table, the *)
(* structure's dimensions and the series-level attributes; a later call  *)
(* is given the table the call before it returned                        *)
StatsAppendMetadata ==
    /\ path = "stats"
    /\ \/ pc = "assembled" /\ calls = 0
       \/ pc = "merged" /\ calls < MaxCalls
    /\ LET metadata_stats_oecd_idd == oecd_json.structure.dimensions
           observation_attribute_map == oecd_json.structure.attributes.series
           given == IF pc = "assembled" THEN oecd_dataframe ELSE idd_dataframe
           e == IF StatsTableError(metadata_stats_oecd_idd.series
                                   \o observation_attribute_map) # ""
                THEN StatsTableError(metadata_stats_oecd_idd.series
                                     \o observation_attribute_map)
                ELSE TimeError(metadata_stats_oecd_idd, oecd_json.missing)
       IN  /\ merge_input' = given
           /\ idd_dataframe' = given
           /\ IF e # ""
              THEN Fail(e) /\ UNCHANGED oecd_metadata
              ELSE /\ oecd_metadata' =
                          DictSet(MetadataTables(observation_attribute_map,
                                      MetadataTables(metadata_stats_oecd_idd.series, <<>>)),
                                  TimeEntry(metadata_stats_oecd_idd))
                   /\ pc' = "merge"
                   /\ UNCHANGED err
    /\ calls' = calls + 1
    /\ UNCHANGED <<path, oecd_json, todo, dimensions_and_attributes, output,
                   oecd_dataframe>>

(* lines 327-334, one code table at a time *)
StatsMerge ==
    /\ path = "stats"
    /\ pc = "merge"
    /\ Len(oecd_metadata) > 0
    /\ LET key == oecd_metadata[1].key
           df == oecd_metadata[1].df
       IN  IF Len(df.rows) = 0
           THEN /\ oecd_metadata' = Tail(oecd_metadata)
                /\ UNCHANGED <<pc, err, idd_dataframe>>
           ELSE IF key \notin idd_dataframe.cols
           THEN Fail("KeyError") /\ UNCHANGED <<oecd_metadata, idd_dataframe>>
           ELSE /\ idd_dataframe' = Merge(idd_dataframe, df, key, "left")
                /\ oecd_metadata' = Tail(oecd_metadata)
                /\ UNCHANGED <<pc, err>>
    /\ UNCHANGED <<path, oecd_json, todo, dimensions_and_attributes, output,
                   oecd_dataframe, merge_input, calls>>

(* line 335 *)
StatsMergeReturn ==
    /\ path = "stats"
    /\ pc = "merge"
    /\ Len(oecd_metadata) = 0
    /\ pc' = "merged"
    /\ UNCHANGED <<path, err, oecd_json, todo, dimensions_and_attributes, output,
                   oecd_dataframe, oecd_metadata, idd_dataframe, merge_input, calls>>

-----------------------------------------------------------------------------
(* oecd_import.py *)

ImportKeys ==
    {<<"0", ":", "0">>, <<"1", ":", "0">>, <<"0">>, <<"0", ":", "0", ":", "1">>}

ImportDims == <<Dim("LOCATION", "", LocationValues), Dim("MEASURE", "", MeasureValues)>>

ImportDimsChoices ==
    {<<Dim("LOCATION", "", <<>>), Dim("MEASURE", "", MeasureValues)>>,
     <<Dim("MEASURE", "", MeasureValues), Dim("UNIT", "", UnitValues)>>}

ImportSeriesChoices ==
    UNION {{Series({}, <<>>, Observations(T, k, 0)) : k \in {0, T}} : T \in 0..MaxPeriods}

ImportDefaultSeries == Series({}, <<>>, Observations(1, 0, 0))

(* up to MaxSeries series, at most one of them other than the default *)
ImportSeriesMaps ==
    UNION {{series \in [keys -> ImportSeriesChoices] :
               Cardinality({k \in keys : series[k] # ImportDefaultSeries}) <= 1} :
           keys \in {k \in SUBSET ImportKeys : Cardinality(k) <= MaxSeries}}

ImportResponses ==
    {Response(Structure(ImportDims, <<>>, TimeDims, <<>>), <<>>, series, {}) :
        series \in ImportSeriesMaps}
    \cup {Response(Structure(ds, <<>>, TimeDims, <<>>), <<>>,
                   [k \in {<<"0", ":", "0">>} |-> s], {}) :
        ds \in ImportDimsChoices, s \in ImportSeriesChoices}
    \cup {Response(Structure(<<>>, <<>>, TimeDims, <<>>), <<>>,
                   [k \in {<<"0", ":", "0">>} |-> ImportDefaultSeries],
                   {"dimensions.series"}),
          Response(Structure(ImportDims, <<>>, <<>>, <<>>), <<>>,
                   [k \in {<<"0", ":", "0">>} |-> ImportDefaultSeries],
                   {"dimensions.observation"})}

RECURSIVE SeqOf(_)
SeqOf(set) ==
    IF set = {} THEN <<>>
    ELSE LET x == CHOOSE x \in set : TRUE IN <<x>> \o SeqOf(set \ {x})

Without(seq, i) == SubSeq(seq, 1, i - 1) \o SubSeq(seq, i + 1, Len(seq))

col_names(structure) == Names(structure.dimensions.series)

(* lines 11-29 *)
ImportFetch ==
    /\ pc = "start"
    /\ \E response \in ImportResponses :
          /\ oecd_json' = response
          /\ IF "dimensions.series" \in response.missing
             THEN Fail("KeyError") /\ UNCHANGED todo
             ELSE /\ todo' = SeqOf(DOMAIN response.dataSets.series)
                  /\ pc' = "import_expand"
                  /\ UNCHANGED err
    /\ path' = "import"
    /\ oecd_dataframe' = EmptyFrame
    /\ UNCHANGED <<dimensions_and_attributes, output, oecd_metadata, idd_dataframe,
                   merge_input, calls>>

(* line 33 *)
ImportData(structure, key) ==
    LET tokens == Split(key)
    IN  OneRowFrame(DictZip(col_names(structure),
                            [i \in 1..Len(tokens) |-> StrVal(tokens[i])]))

(* lines 35-40 *)
ImportObservations(value) ==
    [cols |-> {"time_period", "observation"},
     rows |-> [i \in 1..Len(value.observations) |->
                  [c \in {"time_period", "observation"} |->
                      IF c = "time_period" THEN StrVal(value.observations[i].period)
                      ELSE value.observations[i].obs[1]]]]

(* lines 33-47: [err, data] *)
ImportExpandSeries(structure, key, value) ==
    LET data == ImportData(structure, key)
    IN  IF "location" \notin data.cols
        THEN [err |-> "KeyError", data |-> EmptyFrame]
        ELSE [err |-> "",
              data |-> Merge(SetColumn(ImportObservations(value), "location",
                                       data.rows[1]["location"]),
                             data, "location", "outer")]

(* lines 31-49, one series at a time, in the dict's order *)
ImportExpand ==
    /\ pc = "import_expand"
    /\ \E i \in 1..Len(todo) :
          LET r == ImportExpandSeries(oecd_json.structure, todo[i],
                                      oecd_json.dataSets.series[todo[i]])
          IN  IF r.err # ""
              THEN Fail(r.err) /\ UNCHANGED <<todo, oecd_dataframe>>
              ELSE /\ oecd_dataframe' = Concat(<<oecd_dataframe, r.data>>)
                   /\ todo' = Without(todo, i)
                   /\ UNCHANGED <<pc, err>>
    /\ UNCHANGED <<path, oecd_json, dimensions_and_attributes, output, oecd_metadata,
                   idd_dataframe, merge_input, calls>>

(* line 51 *)
ImportReturn ==
    /\ pc = "import_expand"
    /\ Len(todo) = 0
    /\ pc' = "assembled"
    /\ UNCHANGED <<path, err, oecd_json, todo, dimensions_and_attributes, output,
                   oecd_dataframe, oecd_metadata, idd_dataframe, merge_input, calls>>

(* the exception line 69 raises on a code table without values, "" when none *)
ImportTableError(specs) ==
    IF \E i \in 1..Len(specs) : RenameError(specs[i].values) # ""
    THEN "ValueError" ELSE ""

(* lines 65-80, called as line 93 does; a later call is given the table *)
(* the call before it returned                                          *)
ImportAppendMetadata ==
    /\ path = "import"
    /\ \/ pc = "assembled" /\ calls = 0
       \/ pc = "merged" /\ calls < MaxCalls
    /\ LET metadata_stats_oecd_idd == oecd_json.structure.dimensions
           given == IF pc = "assembled" THEN oecd_dataframe ELSE idd_dataframe
           e == IF ImportTableError(metadata_stats_oecd_idd.series) # ""
                THEN ImportTableError(metadata_stats_oecd_idd.series)
                ELSE TimeError(metadata_stats_oecd_idd, oecd_json.missing)
       IN  /\ merge_input' = given
           /\ idd_dataframe' = given
           /\ IF e # ""
              THEN Fail(e) /\ UNCHANGED oecd_metadata
              ELSE /\ oecd_metadata' =
                          DictSet(MetadataTables(metadata_stats_oecd_idd.series, <<>>),
                                  TimeEntry(metadata_stats_oecd_idd))
                   /\ pc' = "merge"
                   /\ UNCHANGED err
    /\ calls' = calls + 1
    /\ UNCHANGED <<path, oecd_json, todo, dimensions_and_attributes, output,
                   oecd_dataframe>>

(* lines 82-86, one code table at a time, in the dict's order *)
ImportMerge ==
    /\ path = "import"
    /\ pc = "merge"
    /\ \E i \in 1..Len(oecd_metadata) :
          LET key == oecd_metadata[i].key
              df == oecd_metadata[i].df
          IN  IF key \notin idd_dataframe.cols
              THEN Fail("KeyError") /\ UNCHANGED <<oecd_metadata, idd_dataframe>>
              ELSE /\ idd_dataframe' = Merge(idd_dataframe, df, key, "left")
                   /\ oecd_metadata' = Without(oecd_metadata, i)
                   /\ UNCHANGED <<pc, err>>
    /\ UNCHANGED <<path, oecd_json, todo, dimensions_and_attributes, output,
                   oecd_dataframe, merge_input, calls>>

(* line 87 *)
ImportMergeReturn ==
    /\ path = "import"
    /\ pc = "merge"
    /\ Len(oecd_metadata) = 0
    /\ pc' = "merged"
    /\ UNCHANGED <<path, err, oecd_json, todo, dimensions_and_attributes, output,
                   oecd_dataframe, oecd_metadata, idd_dataframe, merge_input, calls>>

-----------------------------------------------------------------------------

NoResponse == Response(Structure(<<>>, <<>>, <<>>, <<>>), <<>>, <<>>, {})

Init ==
    /\ path = ""
    /\ pc = "start"
    /\ err = ""
    /\ oecd_json = NoResponse
    /\ todo = <<>>
    /\ dimensions_and_attributes = <<>>
    /\ output = EmptyFrame
    /\ oecd_dataframe = EmptyFrame
    /\ oecd_metadata = <<>>
    /\ idd_dataframe = EmptyFrame
    /\ merge_input = EmptyFrame
    /\ calls = 0

Next ==
    \/ StatsFetch
    \/ FlatSelect
    \/ FlatDecode
    \/ FlatMerge
    \/ SeriesSelect
    \/ SeriesExpand
    \/ StatsReturn
    \/ StatsAppendMetadata
    \/ StatsMerge
    \/ StatsMergeReturn
    \/ ImportFetch
    \/ ImportExpand
    \/ ImportReturn
    \/ ImportAppendMetadata
    \/ ImportMerge
    \/ ImportMergeReturn

Spec == Init /\ [][Next]_vars

-----------------------------------------------------------------------------
(* What the claims speak of *)

(* the series keys the running expander visits *)
Visited ==
    IF path = "stats" THEN Range(SeriesTestKeys) ELSE DOMAIN oecd_json.dataSets.series

(* the series keys whose rows are in oecd_dataframe *)
Expanded ==
    IF pc \in {"expand", "import_expand"} THEN Visited \ Range(todo)
    ELSE IF pc \in {"assembled", "merge", "merged"} THEN Visited
    ELSE {}

SeriesDimNames == Names(oecd_json.structure.dimensions.series)

SeriesAttrNames == Names(oecd_json.structure.attributes.series)

ObsDimNames == Names(oecd_json.structure.dimensions.observation)

ObsAttrNames == Names(oecd_json.structure.attributes.observation)

Distinct(names) ==
    \A i, j \in 1..Len(names) : names[i] = names[j] => i = j

ArityOk(k) == Len(Split(k)) = Len(SeriesDimNames)

(* the rows of table whose dimension columns hold the tokens of key k *)
RowsOf(table, k) ==
    {r \in 1..Len(table.rows) :
        \A j \in 1..Len(SeriesDimNames) :
            /\ j <= Len(Split(k))
            /\ SeriesDimNames[j] \in table.cols
            /\ table.rows[r][SeriesDimNames[j]] = StrVal(Split(k)[j])}

RECURSIVE SumPeriods(_, _)
SumPeriods(series, keys) ==
    IF keys = {} THEN 0
    ELSE LET k == CHOOSE k \in keys : TRUE
         IN  Len(series[k].observations) + SumPeriods(series, keys \ {k})

(* the strings of the cells of row under names, in order *)
Codes(row, names) == [j \in 1..Len(names) |-> row[names[j]].s]

-----------------------------------------------------------------------------
(* C1: a series key whose number of tokens differs from the number of      *)
(* declared dimensions is never expanded into rows (the run fails on it);  *)
(* stated as: every key whose rows are in the table has one token per      *)
(* declared dimension.                                                     *)
C1_KeyArityMismatch == \A k \in Expanded : ArityOk(k)

(* C2: in the series-keyed expander of stats_oecd, a null at position i of *)
(* a series' attributes array gives that series' rows a missing value in   *)
(* the i-th attribute column, which the merge resolves to no label; the    *)
(* other positions keep their codes.                                       *)
C2_NullAttributeMissing ==
    path = "stats" =>
        \A k \in Expanded :
            LET series == oecd_json.dataSets.series[k]
            IN  (ArityOk(k) /\ Distinct(SeriesDimNames \o SeriesAttrNames)) =>
                    \A i \in 1..Min(Len(series.attributes), Len(SeriesAttrNames)) :
                        \A r \in RowsOf(oecd_dataframe, k) :
                            IF series.attributes[i] = None
                            THEN /\ isnull(oecd_dataframe.rows[r][SeriesAttrNames[i]])
                                 /\ (pc = "merged" /\ (SeriesAttrNames[i] \o "_name") \in idd_dataframe.cols)
                                        => isnull(idd_dataframe.rows[r][SeriesAttrNames[i] \o "_name"])
                            ELSE oecd_dataframe.rows[r][SeriesAttrNames[i]]
                                     = PyStr(series.attributes[i])

(* C3: the table assembled before the merge has one row per (series,      *)
(* period) pair of the payload: the sum of the series' period counts.     *)
C3_RowCount ==
    pc = "assembled" =>
        Len(oecd_dataframe.rows)
            = SumPeriods(oecd_json.dataSets.series, DOMAIN oecd_json.dataSets.series)

(* C4: a key with one token per declared dimension is decoded into codes   *)
(* that are the token strings, in positional order, and joining them with  *)
(* ':' gives the key back, in the series-keyed tables (oecd_dataframe) and *)
(* in the flattened one (output).                                          *)
C4_RoundTrip ==
    /\ \A k \in Expanded :
          ArityOk(k) =>
              \E r \in 1..Len(oecd_dataframe.rows) :
                  /\ \A j \in 1..Len(SeriesDimNames) :
                        /\ SeriesDimNames[j] \in oecd_dataframe.cols
                        /\ oecd_dataframe.rows[r][SeriesDimNames[j]].t = "str"
                  /\ Join(Codes(oecd_dataframe.rows[r], SeriesDimNames)) = k
    /\ (path = "stats" /\ Len(output.rows) = Len(FlatTestKeys)) =>
          \A i \in 1..Len(FlatTestKeys) :
              Len(Split(FlatTestKeys[i])) = Len(ObsDimNames) =>
                  /\ \A j \in 1..Len(ObsDimNames) :
                        /\ ObsDimNames[j] \in output.cols
                        /\ output.rows[i][ObsDimNames[j]].t = "str"
                  /\ Join(Codes(output.rows[i], ObsDimNames)) = FlatTestKeys[i]

(* the code tables append_metadata_to_oecd_stats is given, in its order *)
MergedSpecs ==
    IF path = "stats"
    THEN oecd_json.structure.dimensions.series \o oecd_json.structure.attributes.series
    ELSE oecd_json.structure.dimensions.series

MergedNames == Names(MergedSpecs)

(* the ids all of whose code tables are without values *)
EmptyIds ==
    {MergedNames[i] : i \in {i \in 1..Len(MergedSpecs) :
        \A j \in 1..Len(MergedSpecs) :
            MergedNames[j] = MergedNames[i] => Len(MergedSpecs[j].values) = 0}}

ExpanderNames ==
    IF path = "stats"
    THEN series_data_column_names(oecd_json.structure)
         \o observation_data_column_names(oecd_json.structure)
    ELSE col_names(oecd_json.structure) \o <<"time_period", "observation">>

(* the period of an observation array lands in the column time_period *)
PeriodAligned(obs) ==
    \/ path = "import"
    \/ /\ Len(obs) + 1 <= Len(observation_data_column_names(oecd_json.structure))
       /\ observation_data_column_names(oecd_json.structure)[Len(obs) + 1] = "time_period"

(* the observation cell of a row for the value obs[0] *)
Carries(cell, value) ==
    IF value = None THEN isnull(cell) /\ cell # IntVal(0) ELSE cell = value

(* C6: for a series with one token per dimension, distinct column names    *)
(* and at least one period, every (period, obs) pair has a row with the    *)
(* series' codes whose observation is obs[0], a missing value other than 0 *)
(* when obs[0] is null, and whose time_period is the period when the       *)
(* array has the declared length; the series has no other rows.            *)
C6_NullObservation ==
    \A k \in Expanded :
        LET series == oecd_json.dataSets.series[k]
            T == Len(series.observations)
        IN  (ArityOk(k) /\ Distinct(ExpanderNames) /\ T >= 1) =>
                /\ \A i \in 1..T :
                      \E r \in RowsOf(oecd_dataframe, k) :
                          /\ "observation" \in oecd_dataframe.cols
                          /\ Carries(oecd_dataframe.rows[r]["observation"],
                                     series.observations[i].obs[1])
                          /\ PeriodAligned(series.observations[i].obs) =>
                                /\ "time_period" \in oecd_dataframe.cols
                                /\ oecd_dataframe.rows[r]["time_period"]
                                       = StrVal(series.observations[i].period)
                /\ (\A other \in Expanded : ArityOk(other)) =>
                      Cardinality(RowsOf(oecd_dataframe, k)) = T

(* C6 happens: the assembled table of stats_oecd holds a series of two     *)
(* periods, the second without a value                                     *)
C6_Witness ==
    /\ path = "stats" /\ pc = "assembled"
    /\ Distinct(ExpanderNames)
    /\ \E k \in Expanded :
          LET series == oecd_json.dataSets.series[k]
          IN  /\ ArityOk(k)
              /\ Len(series.observations) = 2
              /\ series.observations[1].obs[1] # None
              /\ series.observations[2].obs[1] = None
              /\ PeriodAligned(series.observations[2].obs)

(* C6 happens in oecd_import too *)
C6_WitnessImport ==
    /\ path = "import" /\ pc = "assembled"
    /\ Distinct(ExpanderNames)
    /\ \E k \in Expanded :
          LET series == oecd_json.dataSets.series[k]
          IN  /\ ArityOk(k)
              /\ Len(series.observations) = 2
              /\ series.observations[2].obs[1] = None

(* C7: when every key has one token per dimension, the table stats_oecd    *)
(* assembles has every declared column: the series-level dimensions and    *)
(* attributes, time_period, observation and the observation-level          *)
(* attributes.                                                             *)
C7_DeclaredColumns ==
    (path = "stats" /\ pc = "assembled" /\ \A k \in Expanded : ArityOk(k)) =>
        (Range(SeriesDimNames) \cup Range(SeriesAttrNames)
            \cup {"time_period", "observation"} \cup Range(ObsAttrNames))
                \subseteq oecd_dataframe.cols

(* the key of the time table *)
TimeKey == Lower(oecd_json.structure.dimensions.observation[1].role)

(* the positions of values a raw code names *)
Hits(raw, values) == {p \in 1..Len(values) : raw = StrVal(FormatNat(p - 1))}

(* C8: after the first merge of either module, for ids that occur once,    *)
(* every id with a non-empty code table is left-joined on its raw code:    *)
(* the table has the rows it was given, each row keeps its raw <id> and    *)
(* has in <id>_code and <id>_name the code and name of the value whose     *)
(* position is the raw code, NaN when no value has that position.          *)
C8_LeftJoin ==
    (pc = "merged" /\ calls = 1 /\ Distinct(MergedNames)) =>
        /\ Len(idd_dataframe.rows) = Len(merge_input.rows)
        /\ \A i \in 1..Len(MergedSpecs) :
              LET id == MergedNames[i]
                  values == MergedSpecs[i].values
              IN  (Len(values) > 0 /\ id # TimeKey) =>
                      /\ id \in merge_input.cols
                      /\ {id, id \o "_code", id \o "_name"} \subseteq idd_dataframe.cols
                      /\ \A r \in 1..Len(merge_input.rows) :
                            LET raw == merge_input.rows[r][id]
                                row == idd_dataframe.rows[r]
                            IN  /\ row[id] = raw
                                /\ IF Hits(raw, values) = {}
                                   THEN /\ row[id \o "_code"] = NaN
                                        /\ row[id \o "_name"] = NaN
                                   ELSE \A p \in Hits(raw, values) :
                                           /\ row[id \o "_code"] = values[p].id
                                           /\ row[id \o "_name"] = values[p].name

(* C8 happens: a first merge of stats_oecd has returned a table in which   *)
(* one raw code of an id is resolved and another matches no value          *)
C8_Witness ==
    /\ path = "stats" /\ pc = "merged" /\ calls = 1 /\ Distinct(MergedNames)
    /\ \E i \in 1..Len(MergedSpecs) :
          /\ Len(MergedSpecs[i].values) > 0
          /\ \E r \in 1..Len(merge_input.rows) :
                Hits(merge_input.rows[r][MergedNames[i]], MergedSpecs[i].values) # {}
          /\ \E r \in 1..Len(merge_input.rows) :
                Hits(merge_input.rows[r][MergedNames[i]], MergedSpecs[i].values) = {}

(* C8 happens in oecd_import too *)
C8_WitnessImport ==
    /\ path = "import" /\ pc = "merged" /\ calls = 1 /\ Distinct(MergedNames)
    /\ \E i \in 1..Len(MergedSpecs) :
          \E r \in 1..Len(merge_input.rows) :
              Hits(merge_input.rows[r][MergedNames[i]], MergedSpecs[i].values) # {}

(* C9: in the merge of stats_oecd no code table is overwritten by another  *)
(* of the same id (after the first merge every non-empty table given has a *)
(* column holding its names for the rows whose raw code it resolves), and  *)
(* the series-level attributes are merged before the dimensions (while     *)
(* tables are being merged, a dimension is resolved only when every        *)
(* series-level attribute with values is).                                 *)
C9_NoOverwriteFixedOrder ==
    (path = "stats" /\ calls = 1) =>
        /\ pc = "merged" =>
              \A i \in 1..Len(MergedSpecs) :
                  LET id == MergedNames[i]
                      values == MergedSpecs[i].values
                  IN  (Len(values) > 0 /\ id \in merge_input.cols) =>
                          \E c \in idd_dataframe.cols :
                              \A r \in 1..Len(merge_input.rows) :
                                  \A p \in Hits(merge_input.rows[r][id], values) :
                                      idd_dataframe.rows[r][c] = values[p].name
        /\ pc = "merge" =>
              ((\E d \in Range(SeriesDimNames) : (d \o "_name") \in idd_dataframe.cols)
                  => \A i \in 1..Len(oecd_json.structure.attributes.series) :
                        (/\ Len(oecd_json.structure.attributes.series[i].values) > 0
                         /\ SeriesAttrNames[i] \in merge_input.cols)
                            => (SeriesAttrNames[i] \o "_name") \in idd_dataframe.cols)

(* C10: a second merge with the same code tables returns the table it was  *)
(* given, and a merge given a table without rows does not fail.            *)
C10_Idempotent ==
    /\ (pc = "merged" /\ calls = 2) => idd_dataframe = merge_input
    /\ (pc = "failed" /\ calls >= 1) => Len(merge_input.rows) > 0

(* the code tables still to be merged, as [key, df], and the table they *)
(* are merged into                                                      *)
Pending ==
    IF pc = "merge" THEN [i \in 1..Len(oecd_metadata) |->
                             [key |-> oecd_metadata[i].key, df |-> oecd_metadata[i].df]]
    ELSE IF pc = "flat_merge"
    THEN [i \in 1..Len(dimensions_and_attributes) |->
             [key |-> dimensions_and_attributes[i].key,
              df |-> CodeFrame(dimensions_and_attributes[i].key,
                               dimensions_and_attributes[i].values,
                               [p \in 1..Len(dimensions_and_attributes[i].values) |->
                                   IntPosition(p)])]]
    ELSE <<>>

Target == IF pc = "flat_merge" THEN output ELSE idd_dataframe

(* the merge of table e into t goes through *)
Applicable(e, t) == Len(e.df.rows) > 0 /\ e.key \in t.cols

RECURSIVE MergeAll(_, _)
MergeAll(t, tables) ==
    IF Len(tables) = 0 THEN t
    ELSE MergeAll(Merge(t, tables[1].df, tables[1].key, "left"), Tail(tables))

(* C11: wherever code tables are merged into a table not merged before    *)
(* (lines 162-169 and 327-334 of stats_oecd, 82-86 of oecd_import),       *)
(* merging the tables of two distinct                                     *)
(* ids in one order or the other gives the same table, rows and columns;  *)
(* and the table oecd_import returns, whatever the order of its dict, is  *)
(* the one the order of the structure gives.                              *)
C11_OrderIndependent ==
    /\ \A i, j \in DOMAIN Pending :
          (/\ calls <= 1
           /\ i < j
           /\ Pending[i].key # Pending[j].key
           /\ Applicable(Pending[i], Target)
           /\ Applicable(Pending[j], Target)) =>
              Merge(Merge(Target, Pending[i].df, Pending[i].key, "left"),
                    Pending[j].df, Pending[j].key, "left")
              = Merge(Merge(Target, Pending[j].df, Pending[j].key, "left"),
                      Pending[i].df, Pending[i].key, "left")
    /\ (path = "import" /\ pc = "merged" /\ calls = 1) =>
          idd_dataframe
              = MergeAll(merge_input,
                         DictSet(MetadataTables(oecd_json.structure.dimensions.series, <<>>),
                                 TimeEntry(oecd_json.structure.dimensions)))

(* C11 happens: two tables of distinct ids, each resolving a row, are yet *)
(* to be merged into a table of stats_oecd                                *)
C11_Witness ==
    /\ path = "stats" /\ pc = "merge" /\ calls = 1
    /\ \E i, j \in DOMAIN Pending :
          /\ i < j
          /\ Pending[i].key # Pending[j].key
          /\ Applicable(Pending[i], Target)
          /\ Applicable(Pending[j], Target)
          /\ \E r \in 1..Len(Target.rows) :
                /\ \E q \in 1..Len(Pending[i].df.rows) :
                      Pending[i].df.rows[q][Pending[i].key] = Target.rows[r][Pending[i].key]
                /\ \E q \in 1..Len(Pending[j].df.rows) :
                      Pending[j].df.rows[q][Pending[j].key] = Target.rows[r][Pending[j].key]

(* C11 happens in oecd_import: a merge in other than the structure's order *)
(* has returned                                                            *)
C11_WitnessImport ==
    /\ path = "import" /\ pc = "merged" /\ calls = 1
    /\ Len(idd_dataframe.rows) > 0
    /\ {"location_name", "measure_name", "year"} \subseteq idd_dataframe.cols

(* the row of output is the decoding of the flattened key: its dimension *)
(* cells print as the key's tokens                                       *)
FlatRowOf(row, key) ==
    /\ Len(Split(key)) = Len(ObsDimNames)
    /\ \A j \in 1..Len(ObsDimNames) :
          /\ ObsDimNames[j] \in output.cols
          /\ ~isnull(row[ObsDimNames[j]])
          /\ PyStr(row[ObsDimNames[j]]) = StrVal(Split(key)[j])

(* the row carries the array: the value, then the attribute codes *)
FlatCarries(row, array) ==
    /\ Len(array) = 1 + Len(ObsAttrNames)
    /\ "observation" \in output.cols
    /\ Carries(row["observation"], array[1])
    /\ \A i \in 1..Len(ObsAttrNames) :
          /\ ObsAttrNames[i] \in output.cols
          /\ Carries(row[ObsAttrNames[i]], array[i + 1])

(* C12: once the flattened section of stats_oecd has built its table,    *)
(* the table has one row per key of dataSets[0].observations and no      *)
(* other: as many rows as keys, and for every key with one token per     *)
(* observation-level dimension exactly one row that decodes it and       *)
(* carries its array.                                                    *)
C12_FlatOneRowPerKey ==
    (path = "stats" /\ Len(output.rows) > 0) =>
        /\ Len(output.rows) = Cardinality(DOMAIN oecd_json.dataSets.observations)
        /\ \A key \in DOMAIN oecd_json.dataSets.observations :
              Len(Split(key)) = Len(ObsDimNames) =>
                  /\ Cardinality({r \in 1..Len(output.rows) :
                                     FlatRowOf(output.rows[r], key)}) = 1
                  /\ \A r \in 1..Len(output.rows) :
                        FlatRowOf(output.rows[r], key) =>
                            FlatCarries(output.rows[r],
                                        oecd_json.dataSets.observations[key])

(* the structure block lacks dimensions.series or dimensions.observation *)
Malformed ==
    {"dimensions.series", "dimensions.observation"} \cap oecd_json.missing # {}

(* C13: on a structure block without dimensions.series or without        *)
(* dimensions.observation no row is ever produced and no table is        *)
(* assembled or merged, and the run fails with MalformedStructure.       *)
C13_MalformedStructure ==
    Malformed =>
        /\ Len(output.rows) = 0
        /\ Len(oecd_dataframe.rows) = 0
        /\ Len(idd_dataframe.rows) = 0
        /\ pc \notin {"assembled", "merge", "merged"}
        /\ pc = "failed" => err = "MalformedStructure"

(* row is the row of the pair (period, obs): the period under           *)
(* time_period, obs[0] under observation, obs[i] under the i-th          *)
(* observation-level attribute, and nothing under the attributes obs     *)
(* has no entry for                                                      *)
ObservationRow(table, row, period, obs) ==
    /\ {"time_period", "observation"} \subseteq table.cols
    /\ row["time_period"] = StrVal(period)
    /\ Carries(row["observation"], obs[1])
    /\ \A i \in 1..Len(ObsAttrNames) :
          IF i + 1 <= Len(obs)
          THEN /\ ObsAttrNames[i] \in table.cols
               /\ Carries(row[ObsAttrNames[i]], obs[i + 1])
          ELSE ObsAttrNames[i] \in table.cols => isnull(row[ObsAttrNames[i]])

(* C14: in the series-keyed expander of stats_oecd, for a series with    *)
(* one token per dimension and distinct column names, every (period,     *)
(* obs) pair has a row with the series' codes that holds the period      *)
(* under time_period, obs[0] under observation and obs[i] under the i-th *)
(* observation-level attribute, the attributes beyond the array being    *)
(* missing, whatever the length of obs.                                  *)
C14_ObservationMapping ==
    path = "stats" =>
        \A k \in Expanded :
            LET series == oecd_json.dataSets.series[k]
            IN  (ArityOk(k) /\ Distinct(ExpanderNames)) =>
                    \A i \in 1..Len(series.observations) :
                        \E r \in RowsOf(oecd_dataframe, k) :
                            ObservationRow(oecd_dataframe, oecd_dataframe.rows[r],
                                           series.observations[i].period,
                                           series.observations[i].obs)

(* the values of the time dimension *)
TimeMetadataValues == oecd_json.structure.dimensions.observation[1].values

(* C15: after the first merge of either module the time dimension is     *)
(* resolved as a year lookup: the table has a column year and no         *)
(* <time>_code / <time>_name pair, every row keeps its raw time code,    *)
(* and its year is the id of the value whose position is that code, NaN  *)
(* when no value has that position.                                      *)
C15_YearLookup ==
    (pc = "merged" /\ calls = 1) =>
        /\ {TimeKey, "year"} \subseteq idd_dataframe.cols
        /\ (TimeKey \o "_code") \notin idd_dataframe.cols
        /\ (TimeKey \o "_name") \notin idd_dataframe.cols
        /\ TimeKey \in merge_input.cols
        /\ Len(idd_dataframe.rows) = Len(merge_input.rows)
        /\ \A r \in 1..Len(merge_input.rows) :
              LET raw == merge_input.rows[r][TimeKey]
                  row == idd_dataframe.rows[r]
              IN  /\ row[TimeKey] = raw
                  /\ IF Hits(raw, TimeMetadataValues) = {}
                     THEN row["year"] = NaN
                     ELSE \A p \in Hits(raw, TimeMetadataValues) :
                             row["year"] = TimeMetadataValues[p].id

(* C15 happens: a first merge of stats_oecd has returned a table with a  *)
(* row of the second period, whose year is resolved                      *)
C15_Witness ==
    /\ path = "stats" /\ pc = "merged" /\ calls = 1
    /\ \E r \in 1..Len(merge_input.rows) :
          /\ merge_input.rows[r][TimeKey] = StrVal(<<"1">>)
          /\ idd_dataframe.rows[r]["year"] = TimeMetadataValues[2].id

(* C15 happens in oecd_import too, with a row whose time code is missing *)
C15_WitnessImport ==
    /\ path = "import" /\ pc = "merged" /\ calls = 1
    /\ \E r \in 1..Len(merge_input.rows) :
          Hits(merge_input.rows[r][TimeKey], TimeMetadataValues) # {}
    /\ \E r \in 1..Len(merge_input.rows) :
          Hits(merge_input.rows[r][TimeKey], TimeMetadataValues) = {}

====
